---- MODULE Spec2Model ----
(***************************************************************************)
(* A model of src/main.py: the three class-string pipelines process_excel  *)
(* (dialect A), process_winter_homework (dialect B) and process_westlake   *)
(* (dialect C), their cell parsers, the dialect A canonicalizer and the    *)
(* dialect C sort key.                                                     *)
(*                                                                         *)
(* A Python str is a sequence of one-character strings.  The characters of *)
(* the source that are not ASCII are written with ASCII stand-ins:         *)
(*   "J" = 级   "B" = 班   "P" = 人   "H" = 护   "T" = 茶   "E" = 电       *)
(*   "(" = （ (U+FF08)   ")" = ） (U+FF09)   "," = 、 (U+3001)             *)
(*   "[" = ASCII (       "]" = ASCII )       ";" = ASCII ,   "^" = ，      *)
(* Positions are 1-based here and 0-based in the source.                   *)
(***************************************************************************)
EXTENDS Integers, Sequences, FiniteSets, TLC

VARIABLES
    mode,              \* which function or handler this run exercises
    pc,                \* position inside that function or handler
    x,                 \* argument of normalize_class_name_final
    y,                 \* normalize_class_name_final(x)
    z,                 \* normalize_class_name_final(y)
    cell,              \* class_str handed to a parser
    classes,           \* the parser's returned list, each entry with its tier
    nrows,             \* rows of df consumed by the iterrows loop
    result_df,         \* processed_data / result_df of the handler
    result_df_unique,  \* result_df_unique of the handler
    result_df_sorted,  \* result_df_sorted of the handler
    final_df           \* the frame written to the output file

vars == <<mode, pc, x, y, z, cell, classes, nrows, result_df,
          result_df_unique, result_df_sorted, final_df>>

----------------------------------------------------------------------------
(* Characters *)

JI == "J"
BAN == "B"
REN == "P"
HU == "H"
CHA == "T"
DIAN == "E"
LP == "("
RP == ")"
DUN == ","
SPACE == " "
DASH == "-"
ALP == "["
ARP == "]"
ACOMMA == ";"
FCOMMA == "^"

Digits == {"0", "1", "2", "3", "4", "5", "6", "7", "8", "9"}

\* \d
IsDigit(c) == c \in Digits

\* \s
IsSpace(c) == c = SPACE

\* [一-龥]
IsCJK(c) == c \in {JI, BAN, REN, HU, CHA, DIAN}

\* the code point of a character: the order Python compares str by
CodePoint(c) ==
    CASE c = SPACE -> 32
      [] c = ALP -> 40
      [] c = ARP -> 41
      [] c = ACOMMA -> 44
      [] c = DASH -> 45
      [] c = "0" -> 48
      [] c = "1" -> 49
      [] c = "2" -> 50
      [] c = "3" -> 51
      [] c = "4" -> 52
      [] c = "5" -> 53
      [] c = "6" -> 54
      [] c = "7" -> 55
      [] c = "8" -> 56
      [] c = "9" -> 57
      [] c = DUN -> 12289
      [] c = REN -> 20154
      [] c = HU -> 25252
      [] c = BAN -> 29677
      [] c = DIAN -> 30005
      [] c = JI -> 32423
      [] c = CHA -> 33590
      [] c = LP -> 65288
      [] c = RP -> 65289
      [] c = FCOMMA -> 65292

DigitVal(c) == CodePoint(c) - 48

\* int(ds) for a non-empty run of digits
RECURSIVE IntVal(_)
IntVal(ds) ==
    IF ds = <<>> THEN 0
    ELSE 10 * IntVal(SubSeq(ds, 1, Len(ds) - 1)) + DigitVal(ds[Len(ds)])

\* c in s
Contains(s, c) == \E i \in 1..Len(s) : s[i] = c

\* s[k:] with k 0-based as in the source
From(s, k) == SubSeq(s, k + 1, Len(s))

Min(S) == CHOOSE m \in S : \A n \in S : m <= n
Max(S) == CHOOSE m \in S : \A n \in S : m >= n

\* the character classes of the patterns, by name
InClass(class, c) ==
    CASE class = "\\d" -> IsDigit(c)
      [] class = "\\s" -> IsSpace(c)
      [] class = "cjk" -> IsCJK(c)
      [] class = "notbracket" ->  \* [^（）\s]
         c # LP /\ c # RP /\ ~IsSpace(c)

\* the last position of the longest run of characters of the class that
\* starts at position i (i - 1 when s[i] is not of it): a greedy X*
RunEnd(s, i, class) ==
    Max({j \in (i - 1)..Len(s) : \A k \in i..j : InClass(class, s[k])})

----------------------------------------------------------------------------
(* process_excel: normalize_class_name_final *)

\* where r'(2[45][^（）\s]+)' can match
YearRunStarts(s) ==
    {i \in 1..Len(s) :
        /\ i + 2 <= Len(s)
        /\ s[i] = "2"
        /\ s[i + 1] \in {"4", "5"}
        /\ InClass("notbracket", s[i + 2])}

\* match.group(1) of the leftmost match, <<>> when there is none
YearRunFrom(s, starts) ==
    IF starts = {} THEN <<>>
    ELSE SubSeq(s, Min(starts), RunEnd(s, Min(starts) + 2, "notbracket"))

\* re.search(r'(2[45][^（）\s]+)', s)
SearchYearRun(s) == YearRunFrom(s, YearRunStarts(s))

\* class_name.startswith(('24', '25'))
StartsWithYear(s) == Len(s) >= 2 /\ s[1] = "2" /\ s[2] \in {"4", "5"}

\* major = class_name[3:]
MajorSlice(class_name) == From(class_name, 3)

\* if major.startswith('级'): major = major[1:]; return year + major
YearPlusMajor(year, major) ==
    IF major # <<>> /\ major[1] = JI THEN year \o From(major, 1) ELSE year \o major

normalize_class_name_final(class_name) ==
    IF Contains(class_name, RP) /\ SearchYearRun(class_name) # <<>>
    THEN SearchYearRun(class_name)
    ELSE IF Contains(class_name, JI) /\ StartsWithYear(class_name)
    THEN YearPlusMajor(SubSeq(class_name, 1, 2), MajorSlice(class_name))
    ELSE class_name

----------------------------------------------------------------------------
(* process_excel: the patterns of parse_class_info *)

\* a match object: its groups (those the pattern has) and its end
NoMatch == [ok |-> FALSE, grp |-> <<>>, major |-> <<>>, year |-> <<>>,
            num |-> <<>>, cnt |-> <<>>, end |-> 0]

\* 人?） (ren) or ） right after position e
ClosesAfter(s, e, ren) ==
    \/ ren /\ e + 2 <= Len(s) /\ s[e + 1] = REN /\ s[e + 2] = RP
    \/ e + 1 <= Len(s) /\ s[e + 1] = RP

\* the ends of the digit runs \d+ can take after the （ at p so that the
\* bracket closes: \d+ is greedy and gives digits back until it does
CountEnds(s, p, ren) ==
    {e \in (p + 1)..RunEnd(s, p + 1, "\\d") : ClosesAfter(s, e, ren)}

\* the end of the match: 人? is greedy
CloseEnd(s, e, ren) ==
    IF ren /\ e + 2 <= Len(s) /\ s[e + 1] = REN /\ s[e + 2] = RP THEN e + 2 ELSE e + 1

BracketCountOf(s, p, ren, es) ==
    IF es = {} THEN NoMatch
    ELSE [NoMatch EXCEPT !.ok = TRUE, !.cnt = SubSeq(s, p + 1, Max(es)),
                         !.end = CloseEnd(s, Max(es), ren)]

\* （(\d+)人?） (ren) or （(\d+)） tried at position p
BracketCount(s, p, ren) ==
    IF p <= Len(s) /\ s[p] = LP
    THEN BracketCountOf(s, p, ren, CountEnds(s, p, ren))
    ELSE NoMatch

\* the lengths the run [^（\s]+? after the two digits at i can have
ClassTextLengths(s, i, ren) ==
    {k \in 1..Len(s) :
        /\ i + 1 + k <= Len(s)
        /\ \A j \in (i + 2)..(i + 1 + k) : s[j] # LP /\ ~IsSpace(s[j])
        /\ BracketCount(s, i + 2 + k, ren).ok}

BracketedWith(s, i, k, t) ==
    [NoMatch EXCEPT !.ok = TRUE, !.grp = SubSeq(s, i, i + 1 + k),
                    !.cnt = t.cnt, !.end = t.end]

\* the run is lazy: it takes the fewest characters with which the rest of
\* the pattern matches
BracketedOf(s, i, ren, ks) ==
    IF ks = {} THEN NoMatch
    ELSE BracketedWith(s, i, Min(ks), BracketCount(s, i + 2 + Min(ks), ren))

\* (\d{2}[^（\s]+?)（(\d+)人?） (ren) or (\d{2}[^（\s]+?)（(\d+)） tried at
\* position i
MatchBracketed(s, i, ren) ==
    IF i + 1 <= Len(s) /\ IsDigit(s[i]) /\ IsDigit(s[i + 1])
    THEN BracketedOf(s, i, ren, ClassTextLengths(s, i, ren))
    ELSE NoMatch

----------------------------------------------------------------------------
(* process_winter_homework: the patterns of parse_class_info_new *)

\* (\d+班)\s*(\d+)人 (ren) or (\d+班)\s*(\d+) tried at position i.  Each of
\* \d+, \s*, \d+ is greedy: of the ways to match, the one taken has the
\* longest first run, then the longest second, then the longest third.

\* the ends f of the second \d+ when it starts after position w
SuffixCountEnds(s, w, ren) ==
    {f \in (w + 1)..RunEnd(s, w + 1, "\\d") : ren => (f + 1 <= Len(s) /\ s[f + 1] = REN)}

\* the ends w of \s* after the 班 that follows position e
SuffixGapEnds(s, e, ren) ==
    {w \in (e + 1)..RunEnd(s, e + 2, "\\s") : SuffixCountEnds(s, w, ren) # {}}

\* the ends e of the first \d+
SuffixClassEnds(s, i, ren) ==
    {e \in i..RunEnd(s, i, "\\d") :
        e + 1 <= Len(s) /\ s[e + 1] = BAN /\ SuffixGapEnds(s, e, ren) # {}}

SuffixedWith(s, i, ren, e, w, f) ==
    [NoMatch EXCEPT !.ok = TRUE, !.grp = SubSeq(s, i, e + 1),
                    !.cnt = SubSeq(s, w + 1, f),
                    !.end = IF ren THEN f + 1 ELSE f]

SuffixedGap(s, i, ren, e, w) ==
    SuffixedWith(s, i, ren, e, w, Max(SuffixCountEnds(s, w, ren)))

SuffixedClass(s, i, ren, e) ==
    SuffixedGap(s, i, ren, e, Max(SuffixGapEnds(s, e, ren)))

MatchSuffixed(s, i, ren) ==
    IF SuffixClassEnds(s, i, ren) = {} THEN NoMatch
    ELSE SuffixedClass(s, i, ren, Max(SuffixClassEnds(s, i, ren)))

----------------------------------------------------------------------------
(* process_westlake: the patterns of parse_class_info_new_format *)

\* (?:-(\d+))? tried at position p: greedy, so taken whenever it matches
DashCount(s, p) ==
    IF p + 1 <= Len(s) /\ s[p] = DASH /\ IsDigit(s[p + 1])
    THEN [cnt |-> SubSeq(s, p + 1, RunEnd(s, p + 1, "\\d")),
          end |-> RunEnd(s, p + 1, "\\d")]
    ELSE [cnt |-> <<>>, end |-> p - 1]

\* the ends c of the run of ideographs from i after which three digits follow
MajorEnds(s, i, cjk, least) ==
    {c \in (i - 1 + least)..(IF cjk THEN RunEnd(s, i, "cjk") ELSE i - 1) :
        /\ c + 3 <= Len(s)
        /\ IsDigit(s[c + 1]) /\ IsDigit(s[c + 2]) /\ IsDigit(s[c + 3])}

CodedWith(s, i, c, f, t) ==
    [NoMatch EXCEPT !.ok = TRUE, !.major = SubSeq(s, i, c),
                    !.year = SubSeq(s, c + 1, c + 2),
                    !.num = SubSeq(s, c + 3, f),
                    !.cnt = t.cnt, !.end = t.end]

CodedNum(s, i, c, f) == CodedWith(s, i, c, f, DashCount(s, f + 1))

CodedMajor(s, i, c) == CodedNum(s, i, c, RunEnd(s, c + 3, "\\d"))

\* ([一-龥]+)(\d{2})(\d+)(?:-(\d+))? with least 1,
\* ([一-龥]*)(\d{2})(\d+)(?:-(\d+))? with least 0, and, with cjk FALSE,
\* (\d{2})(\d+)(?:-(\d+))?, tried at position i
MatchCoded(s, i, cjk, least) ==
    IF MajorEnds(s, i, cjk, least) = {} THEN NoMatch
    ELSE CodedMajor(s, i, Max(MajorEnds(s, i, cjk, least)))

ThreeDigitsWith(s, i, t) ==
    [NoMatch EXCEPT !.ok = TRUE, !.grp = SubSeq(s, i, i + 2),
                    !.cnt = t.cnt, !.end = t.end]

\* (\d{3})(?:-(\d+))? tried at position i
MatchThreeDigits(s, i) ==
    IF i + 2 <= Len(s) /\ IsDigit(s[i]) /\ IsDigit(s[i + 1]) /\ IsDigit(s[i + 2])
    THEN ThreeDigitsWith(s, i, DashCount(s, i + 3))
    ELSE NoMatch

----------------------------------------------------------------------------
(* re.findall *)

\* the patterns of the source, by handler and name
MatchAt(pat, s, i) ==
    CASE pat = "A.pattern" -> MatchBracketed(s, i, TRUE)
      [] pat = "A.pattern2" -> MatchBracketed(s, i, FALSE)
      [] pat = "B.pattern" -> MatchSuffixed(s, i, TRUE)
      [] pat = "B.pattern2" -> MatchSuffixed(s, i, FALSE)
      [] pat = "C.pattern1" -> MatchCoded(s, i, TRUE, 1)
      [] pat = "C.pattern2" -> MatchCoded(s, i, TRUE, 0)
      [] pat = "C.pattern3" -> MatchCoded(s, i, FALSE, 0)
      [] pat = "C.pattern4" -> MatchThreeDigits(s, i)

\* the positions from pos on where the pattern matches
MatchStarts(pat, s, pos) == {i \in pos..Len(s) : MatchAt(pat, s, i).ok}

\* re.findall: the leftmost match from pos on, then on from its end
RECURSIVE FindAll(_, _, _)
FindNext(pat, s, m) == <<m>> \o FindAll(pat, s, m.end + 1)

FindFrom(pat, s, starts) ==
    IF starts = {} THEN <<>> ELSE FindNext(pat, s, MatchAt(pat, s, Min(starts)))

FindAll(pat, s, pos) == FindFrom(pat, s, MatchStarts(pat, s, pos))

----------------------------------------------------------------------------
(* The parsers *)

\* an entry of the returned list: (class_name, student_count), the count a
\* sequence of no element for None, and the pattern tier that appended it
Entry(name, cnt, tier) == [name |-> name, cnt |-> cnt, tier |-> tier]

\* int(count) if count else None
CountOf(ds) == IF ds = <<>> THEN <<>> ELSE <<IntVal(ds)>>

\* any(c[0] == name for c in classes)
HasName(cs, name) == \E i \in 1..Len(cs) : cs[i].name = name

\* for e in es: if not any(c[0] == e.name for c in classes): classes.append
RECURSIVE AppendNew(_, _)
AppendNew(cs, es) ==
    IF es = <<>> THEN cs
    ELSE AppendNew(IF HasName(cs, Head(es).name) THEN cs ELSE Append(cs, Head(es)),
                   Tail(es))

\* (match[0], int(match[1])) of each match
Captured(ms, tier) ==
    [i \in 1..Len(ms) |-> Entry(ms[i].grp, CountOf(ms[i].cnt), tier)]

\* the second loop: the matches of pattern2 whose class text is not yet there
SecondTierA(cs, class_str) ==
    AppendNew(cs, Captured(FindAll("A.pattern2", class_str, 1), 2))

parse_class_info(class_str) ==
    SecondTierA(Captured(FindAll("A.pattern", class_str, 1), 1), class_str)

\* the second pattern consulted whatever the first found
SecondTierB_Always(cs, s) == AppendNew(cs, Captured(FindAll("B.pattern2", s, 1), 2))

\* if not classes: the second pattern is consulted
SecondTierB(cs, s) ==
    IF cs = <<>> THEN Captured(FindAll("B.pattern2", s, 1), 2) ELSE cs

parse_class_info_new(class_str) ==
    SecondTierB(Captured(FindAll("B.pattern", class_str, 1), 1), class_str)

\* where open [^close]* close can match
BracketedStarts(s, open, close) ==
    {i \in 1..Len(s) : s[i] = open /\ \E j \in (i + 1)..Len(s) : s[j] = close}

\* re.sub(open [^close]* close, '', s)
RECURSIVE RemoveBracketed(_, _, _)
RemoveAt(s, open, close, i) ==
    SubSeq(s, 1, i - 1)
        \o RemoveBracketed(From(s, Min({k \in (i + 1)..Len(s) : s[k] = close})),
                           open, close)

RemoveFrom(s, open, close, starts) ==
    IF starts = {} THEN s ELSE RemoveAt(s, open, close, Min(starts))

RemoveBracketed(s, open, close) ==
    RemoveFrom(s, open, close, BracketedStarts(s, open, close))

StripTo(s, keep) ==
    IF keep = {} THEN <<>> ELSE SubSeq(s, Min(keep), Max(keep))

\* s.strip(' 、，,')
Strip(s) ==
    StripTo(s, {i \in 1..Len(s) : s[i] \notin {SPACE, DUN, FCOMMA, ACOMMA}})

\* cleaned_str
Cleaned(s) == Strip(RemoveBracketed(RemoveBracketed(s, LP, RP), ALP, ARP))

\* f"{year}{major}{class_num}", the major defaulted when asked and empty
CodedEntries(ms, default, tier) ==
    [i \in 1..Len(ms) |->
        Entry(ms[i].year
                \o (IF default /\ ms[i].major = <<>> THEN <<DIAN>> ELSE ms[i].major)
                \o ms[i].num,
              CountOf(ms[i].cnt), tier)]

\* full_num[:2], "电", full_num[2:]
ThreeDigitEntries(ms, tier) ==
    [i \in 1..Len(ms) |->
        Entry(SubSeq(ms[i].grp, 1, 2) \o <<DIAN>> \o From(ms[i].grp, 2),
              CountOf(ms[i].cnt), tier)]

\* for match in matches1: classes.append
FirstTierC(matches1) == CodedEntries(matches1, FALSE, 1)

\* pattern2 never consulted
SecondTierC_Skipped(cs, matches1, cleaned_str) == cs

\* if not matches1: the entries of pattern2 not yet present
SecondTierC(cs, matches1, cleaned_str) ==
    IF matches1 = <<>>
    THEN AppendNew(cs, CodedEntries(FindAll("C.pattern2", cleaned_str, 1), TRUE, 2))
    ELSE cs

\* if not classes: the entries of pattern3 not yet present
ThirdTierC(cs, cleaned_str) ==
    IF cs = <<>>
    THEN AppendNew(cs, CodedEntries(FindAll("C.pattern3", cleaned_str, 1), TRUE, 3))
    ELSE cs

\* if not classes: the entries of pattern4 not yet present
FourthTierC(cs, cleaned_str) ==
    IF cs = <<>>
    THEN AppendNew(cs, ThreeDigitEntries(FindAll("C.pattern4", cleaned_str, 1), 4))
    ELSE cs

TiersC(matches1, cleaned_str) ==
    FourthTierC(ThirdTierC(SecondTierC(FirstTierC(matches1), matches1, cleaned_str),
                           cleaned_str),
                cleaned_str)

ParseCleaned(cleaned_str) ==
    TiersC(FindAll("C.pattern1", cleaned_str, 1), cleaned_str)

parse_class_info_new_format(class_str) == ParseCleaned(Cleaned(class_str))

\* the starts of the digit runs that end class_name: where (\d+)$ can match
TrailingDigitStarts(class_name) ==
    {i \in 1..Len(class_name) : \A k \in i..Len(class_name) : IsDigit(class_name[k])}

SortKeyOf(class_name, year, starts) ==
    IF starts # {}
    THEN year * 100 + IntVal(SubSeq(class_name, Min(starts), Len(class_name)))
    ELSE year * 100

get_class_sort_key(class_name) ==
    IF Len(class_name) >= 2 /\ IsDigit(class_name[1]) /\ IsDigit(class_name[2])
    THEN SortKeyOf(class_name, IntVal(SubSeq(class_name, 1, 2)),
                   TrailingDigitStarts(class_name))
    ELSE 999999

----------------------------------------------------------------------------
(* The data frames of the three handlers *)

\* a row of processed_data: 原始班级 (dialect A), 班级, 书名, 出版社, 书号,
\* 学生数量 / 人数, and 序号 / 编号 (0 until it is assigned)
Row(entry, meta) ==
    [raw |-> entry.name, cls |-> entry.name, book |-> meta[1],
     publisher |-> meta[2], isbn |-> meta[3], cnt |-> entry.cnt, seq |-> 0]

\* for class_name, student_count in classes: processed_data.append({...})
Expand(entries, meta) == [i \in 1..Len(entries) |-> Row(entries[i], meta)]

\* the raw identifier in place of the canonical one
DedupKeyOnRaw(r) == <<r.raw, r.book, r.publisher, r.isbn>>

\* subset=['班级', '书名', '出版社', '书号']
DedupKey(r) == <<r.cls, r.book, r.publisher, r.isbn>>

\* the rows of df at the positions in idx, in df's order
RECURSIVE Pick(_, _)
Pick(df, idx) ==
    IF idx = {} THEN <<>>
    ELSE <<df[Min(idx)]>> \o Pick(df, idx \ {Min(idx)})

\* keep='last'
drop_duplicates_keep_last(df) ==
    Pick(df, {i \in 1..Len(df) :
                \A j \in (i + 1)..Len(df) : DedupKey(df[j]) # DedupKey(df[i])})

\* df.drop_duplicates(subset=[...]): keep='first'
drop_duplicates(df) ==
    Pick(df, {i \in 1..Len(df) : \A j \in 1..(i - 1) : DedupKey(df[j]) # DedupKey(df[i])})

ClassColumn(rows) == [i \in 1..Len(rows) |-> rows[i].cls]

\* df['班级'].drop_duplicates().tolist()
unique_classes(df) ==
    ClassColumn(Pick(df, {i \in 1..Len(df) : \A j \in 1..(i - 1) : df[j].cls # df[i].cls}))

\* class_map = {name: i for i, name in enumerate(unique_classes, 1)}
class_map(names, name) == CHOOSE i \in 1..Len(names) : names[i] = name

\* the rows numbered by their position
MappedByRow(df, names) == [i \in 1..Len(df) |-> [df[i] EXCEPT !.seq = i]]

\* df['序号'] = df['班级'].map(class_map)
Mapped(df, names) ==
    [i \in 1..Len(df) |-> [df[i] EXCEPT !.seq = class_map(names, df[i].cls)]]

Numbered(df) == Mapped(df, unique_classes(df))

\* a < b for two str: by code point, a proper prefix first
RECURSIVE StrLess(_, _)
StrLess(a, b) ==
    IF b = <<>> THEN FALSE
    ELSE IF a = <<>> THEN TRUE
    ELSE IF a[1] # b[1] THEN CodePoint(a[1]) < CodePoint(b[1])
    ELSE StrLess(Tail(a), Tail(b))

\* .str[:2] and .str[2:]
YearOf(cls) == SubSeq(cls, 1, IF Len(cls) < 2 THEN Len(cls) ELSE 2)
RestOf(cls) == From(cls, 2)

\* both columns ascending
BeforeA_YearAscending(r1, r2) ==
    \/ StrLess(YearOf(r1.cls), YearOf(r2.cls))
    \/ YearOf(r1.cls) = YearOf(r2.cls) /\ StrLess(RestOf(r1.cls), RestOf(r2.cls))

\* the order of sort_values(['年份', '专业班级'], ascending=[False, True])
BeforeA(r1, r2) ==
    \/ StrLess(YearOf(r2.cls), YearOf(r1.cls))
    \/ YearOf(r1.cls) = YearOf(r2.cls) /\ StrLess(RestOf(r1.cls), RestOf(r2.cls))

\* the rank of each row of df in that order
KeysA(df) ==
    [i \in 1..Len(df) |-> Cardinality({j \in 1..Len(df) : BeforeA(df[j], df[i])})]

\* .str.replace('班', '', regex=False)
RECURSIVE WithoutBan(_)
WithoutBan(cls) ==
    IF cls = <<>> THEN <<>>
    ELSE (IF Head(cls) = BAN THEN <<>> ELSE <<Head(cls)>>) \o WithoutBan(Tail(cls))

\* .str.isnumeric()
IsNumeric(ds) == ds # <<>> /\ \A i \in 1..Len(ds) : IsDigit(ds[i])

\* 班级编号数字, after .astype(int)
KeysB(df) == [i \in 1..Len(df) |-> IntVal(WithoutBan(df[i].cls))]

\* 排序键
KeysC(df) == [i \in 1..Len(df) |-> get_class_sort_key(df[i].cls)]

\* s without its element at position i
Without(s, i) == SubSeq(s, 1, i - 1) \o SubSeq(s, i + 1, Len(s))

\* the positions of the rows of least key
Least(keys) == {j \in 1..Len(keys) : \A k \in 1..Len(keys) : keys[j] <= keys[k]}

\* sort_values on several columns: a stable sort of df by keys, ascending
RECURSIVE StableSorted(_, _)
StableFrom(keys, df, i) == <<df[i]>> \o StableSorted(Without(keys, i), Without(df, i))

StableSorted(keys, df) ==
    IF df = <<>> THEN <<>> ELSE StableFrom(keys, df, Min(Least(keys)))

\* sort_values on one column, kind='quicksort': ascending by keys, rows of
\* equal key in any order; the set of frames it may return
RECURSIVE AnySorted(_, _)
AnySorted(keys, df) ==
    IF df = <<>> THEN {<<>>}
    ELSE UNION {{<<df[i]>> \o rest : rest \in AnySorted(Without(keys, i), Without(df, i))} :
                  i \in Least(keys)}

\* pd.isna(class_str) or str(class_str).strip() == ''
IsBlank(class_str) == \A i \in 1..Len(class_str) : IsSpace(class_str[i])

----------------------------------------------------------------------------
(* The handlers, on the rows of a sheet *)

MaxRows == 3

\* (书名, 出版社, 书号) of a source row
Metas == {<<"book1", "pub1", "isbn1">>, <<"book2", "pub1", "isbn1">>}

\* 24护1班（45人） | 24级护1班（40） | 24护1班（45人）、24护2班（40） | 25护1班（5人）
CellsA ==
    {<<"2", "4", HU, "1", BAN, LP, "4", "5", REN, RP>>,
     <<"2", "4", JI, HU, "1", BAN, LP, "4", "0", RP>>,
     <<"2", "4", HU, "1", BAN, LP, "4", "5", REN, RP, DUN,
       "2", "4", HU, "2", BAN, LP, "4", "0", RP>>,
     <<"2", "5", HU, "1", BAN, LP, "5", REN, RP>>}

\* 01班10人 | 1班10人 | 2班5人 | 1班7 | a blank cell
CellsB ==
    {<<"0", "1", BAN, "1", "0", REN>>,
     <<"1", BAN, "1", "0", REN>>,
     <<"2", BAN, "5", REN>>,
     <<"1", BAN, "7">>,
     <<SPACE>>}

\* 茶231-45 | 电231-45 | 221 | 茶231 | a blank cell
CellsC ==
    {<<CHA, "2", "3", "1", DASH, "4", "5">>,
     <<DIAN, "2", "3", "1", DASH, "4", "5">>,
     <<"2", "2", "1">>,
     <<CHA, "2", "3", "1">>,
     <<SPACE>>}

NoFrame == <<>>

Init ==
    /\ mode \in {"A", "B", "C"}
    /\ pc = "rows"
    /\ x = <<>>
    /\ y = <<>>
    /\ z = <<>>
    /\ cell = <<>>
    /\ classes = <<>>
    /\ nrows = 0
    /\ result_df = NoFrame
    /\ result_df_unique = NoFrame
    /\ result_df_sorted = NoFrame
    /\ final_df = NoFrame

Idle == UNCHANGED <<mode, x, y, z, cell, classes>>

(* process_excel *)

\* one pass of the loop over df.iterrows()
A_Row ==
    /\ mode = "A" /\ pc = "rows" /\ nrows < MaxRows
    /\ \E class_str \in CellsA, meta \in Metas :
          result_df' = result_df \o Expand(parse_class_info(class_str), meta)
    /\ nrows' = nrows + 1
    /\ UNCHANGED <<pc, result_df_unique, result_df_sorted, final_df>>
    /\ Idle

\* result_df = pd.DataFrame(processed_data); the empty check; 班级
A_Frame ==
    /\ mode = "A" /\ pc = "rows"
    /\ IF result_df = <<>>
       THEN pc' = "error" /\ UNCHANGED result_df
       ELSE /\ pc' = "dedup"
            /\ result_df' = [i \in 1..Len(result_df) |->
                   [result_df[i] EXCEPT !.cls = normalize_class_name_final(result_df[i].raw)]]
    /\ UNCHANGED <<nrows, result_df_unique, result_df_sorted, final_df>>
    /\ Idle

A_Dedup ==
    /\ mode = "A" /\ pc = "dedup"
    /\ result_df_unique' = drop_duplicates(result_df)
    /\ pc' = "sort"
    /\ UNCHANGED <<nrows, result_df, result_df_sorted, final_df>>
    /\ Idle

A_Sort ==
    /\ mode = "A" /\ pc = "sort"
    /\ result_df_sorted' = StableSorted(KeysA(result_df_unique), result_df_unique)
    /\ pc' = "number"
    /\ UNCHANGED <<nrows, result_df, result_df_unique, final_df>>
    /\ Idle

A_Number ==
    /\ mode = "A" /\ pc = "number"
    /\ final_df' = Numbered(result_df_sorted)
    /\ pc' = "done"
    /\ UNCHANGED <<nrows, result_df, result_df_unique, result_df_sorted>>
    /\ Idle

(* process_winter_homework *)

B_Row ==
    /\ mode = "B" /\ pc = "rows" /\ nrows < MaxRows
    /\ \E class_str \in CellsB, meta \in Metas :
          result_df' = IF IsBlank(class_str) THEN result_df
                       ELSE result_df \o Expand(parse_class_info_new(class_str), meta)
    /\ nrows' = nrows + 1
    /\ UNCHANGED <<pc, result_df_unique, result_df_sorted, final_df>>
    /\ Idle

\* the empty check; the rows whose 班级编号数字 is numeric
B_Frame ==
    /\ mode = "B" /\ pc = "rows"
    /\ IF result_df = <<>>
       THEN pc' = "error" /\ UNCHANGED result_df
       ELSE /\ pc' = "sort"
            /\ result_df' = Pick(result_df, {i \in 1..Len(result_df) :
                                               IsNumeric(WithoutBan(result_df[i].cls))})
    /\ UNCHANGED <<nrows, result_df_unique, result_df_sorted, final_df>>
    /\ Idle

B_Sort ==
    /\ mode = "B" /\ pc = "sort"
    /\ result_df_sorted' \in AnySorted(KeysB(result_df), result_df)
    /\ pc' = "dedup"
    /\ UNCHANGED <<nrows, result_df, result_df_unique, final_df>>
    /\ Idle

B_Dedup ==
    /\ mode = "B" /\ pc = "dedup"
    /\ result_df_unique' = drop_duplicates(result_df_sorted)
    /\ pc' = "number"
    /\ UNCHANGED <<nrows, result_df, result_df_sorted, final_df>>
    /\ Idle

B_Number ==
    /\ mode = "B" /\ pc = "number"
    /\ final_df' = Numbered(result_df_unique)
    /\ pc' = "done"
    /\ UNCHANGED <<nrows, result_df, result_df_unique, result_df_sorted>>
    /\ Idle

(* process_westlake *)

C_Row ==
    /\ mode = "C" /\ pc = "rows" /\ nrows < MaxRows
    /\ \E class_info \in CellsC, meta \in Metas :
          result_df' = IF IsBlank(class_info) THEN result_df
                       ELSE result_df \o Expand(parse_class_info_new_format(class_info), meta)
    /\ nrows' = nrows + 1
    /\ UNCHANGED <<pc, result_df_unique, result_df_sorted, final_df>>
    /\ Idle

C_Frame ==
    /\ mode = "C" /\ pc = "rows"
    /\ pc' = IF result_df = <<>> THEN "error" ELSE "sort"
    /\ UNCHANGED <<nrows, result_df, result_df_unique, result_df_sorted, final_df>>
    /\ Idle

C_Sort ==
    /\ mode = "C" /\ pc = "sort"
    /\ result_df_sorted' \in AnySorted(KeysC(result_df), result_df)
    /\ pc' = "dedup"
    /\ UNCHANGED <<nrows, result_df, result_df_unique, final_df>>
    /\ Idle

C_Dedup ==
    /\ mode = "C" /\ pc = "dedup"
    /\ result_df_unique' = drop_duplicates(result_df_sorted)
    /\ pc' = "number"
    /\ UNCHANGED <<nrows, result_df, result_df_sorted, final_df>>
    /\ Idle

C_Number ==
    /\ mode = "C" /\ pc = "number"
    /\ final_df' = Numbered(result_df_unique)
    /\ pc' = "done"
    /\ UNCHANGED <<nrows, result_df, result_df_unique, result_df_sorted>>
    /\ Idle

Next ==
    \/ A_Row \/ A_Frame \/ A_Dedup \/ A_Sort \/ A_Number
    \/ B_Row \/ B_Frame \/ B_Sort \/ B_Dedup \/ B_Number
    \/ C_Row \/ C_Frame \/ C_Sort \/ C_Dedup \/ C_Number

Spec == Init /\ [][Next]_vars

----------------------------------------------------------------------------
(* The three parsers run on their own: cell, then classes = parse(cell) *)

MaxMentions == 2

MaxTokens == 5

\* <2-digit-year><class-text>（<digits>人?）
Mention(year, text, count, ren) ==
    year \o text \o <<LP>> \o count \o (IF ren THEN <<REN>> ELSE <<>>) \o <<RP>>

\* 24 | 25, 护1班 | 级护, 5 | 45, with and without 人
Mentions ==
    {Mention(year, text, count, ren) :
        year \in {<<"2", "4">>, <<"2", "5">>},
        text \in {<<HU, "1", BAN>>, <<JI, HU>>},
        count \in {<<"5">>, <<"4", "5">>},
        ren \in BOOLEAN}

\* the cells of exactly n mentions separated by 、
RECURSIVE MentionCells(_)
MentionCells(n) ==
    IF n = 1 THEN Mentions
    ELSE {c \o <<DUN>> \o m : c \in MentionCells(n - 1), m \in Mentions}

WellFormedCells == UNION {MentionCells(n) : n \in 1..MaxMentions}

\* 1班 | 2班 | 4 | 人 | a space | 护
TokensB == {<<"1", BAN>>, <<"2", BAN>>, <<"4">>, <<REN>>, <<SPACE>>, <<HU>>}

\* 茶 | 231 | 1 | - | 、 | （1）
TokensC == {<<CHA>>, <<"2", "3", "1">>, <<"1">>, <<DASH>>, <<DUN>>, <<LP, "1", RP>>}

\* the cells made of at most n tokens of T
RECURSIVE TokenCells(_, _)
OneMore(shorter, T) == shorter \cup {s \o t : s \in shorter, t \in T}

TokenCells(T, n) == IF n = 0 THEN {<<>>} ELSE OneMore(TokenCells(T, n - 1), T)

MaxDigits == 8

\* no run of more than MaxDigits digits, so that int() stays within TLC's integers
DigitRunsFit(s) ==
    \A i \in 1..(Len(s) - MaxDigits) : \E k \in i..(i + MaxDigits) : ~IsDigit(s[k])

CellsOfTokens(T) == {s \in TokenCells(T, MaxTokens) : DigitRunsFit(s)}

InitParse ==
    /\ mode \in {"parse_class_info", "parse_class_info_new", "parse_class_info_new_format"}
    /\ pc = "call"
    /\ cell \in CASE mode = "parse_class_info" -> WellFormedCells
                  [] mode = "parse_class_info_new" -> CellsOfTokens(TokensB)
                  [] mode = "parse_class_info_new_format" -> CellsOfTokens(TokensC)
    /\ classes = <<>>
    /\ x = <<>>
    /\ y = <<>>
    /\ z = <<>>
    /\ nrows = 0
    /\ result_df = NoFrame
    /\ result_df_unique = NoFrame
    /\ result_df_sorted = NoFrame
    /\ final_df = NoFrame

Returned ==
    /\ pc' = "returned"
    /\ UNCHANGED <<mode, x, y, z, cell, nrows, result_df,
                   result_df_unique, result_df_sorted, final_df>>

CallParseA ==
    /\ mode = "parse_class_info" /\ pc = "call"
    /\ classes' = parse_class_info(cell)
    /\ Returned

CallParseB ==
    /\ mode = "parse_class_info_new" /\ pc = "call"
    /\ classes' = parse_class_info_new(cell)
    /\ Returned

CallParseC ==
    /\ mode = "parse_class_info_new_format" /\ pc = "call"
    /\ classes' = parse_class_info_new_format(cell)
    /\ Returned

NextParse == CallParseA \/ CallParseB \/ CallParseC

SpecParse == InitParse /\ [][NextParse]_vars

----------------------------------------------------------------------------
(* The canonicalizer run on its own: x, then y = f(x), then z = f(y) *)

NormLen == 5

NormAlphabet == {"2", "4", "5", "1", JI, HU, RP}

\* the strings over A of length at most n
RECURSIVE StringsOver(_, _)
Longer(shorter, A, n) ==
    shorter \cup {Append(s, c) : s \in {t \in shorter : Len(t) = n - 1}, c \in A}

StringsOver(A, n) ==
    IF n = 0 THEN {<<>>} ELSE Longer(StringsOver(A, n - 1), A, n)

InitNormalize ==
    /\ mode = "normalize"
    /\ pc = "start"
    /\ x \in StringsOver(NormAlphabet, NormLen)
    /\ y = <<>>
    /\ z = <<>>
    /\ cell = <<>>
    /\ classes = <<>>
    /\ nrows = 0
    /\ result_df = NoFrame
    /\ result_df_unique = NoFrame
    /\ result_df_sorted = NoFrame
    /\ final_df = NoFrame

Canonicalize ==
    /\ mode = "normalize"
    /\ pc = "start"
    /\ y' = normalize_class_name_final(x)
    /\ pc' = "once"
    /\ UNCHANGED <<mode, x, z, cell, classes, nrows, result_df,
                   result_df_unique, result_df_sorted, final_df>>

CanonicalizeAgain ==
    /\ mode = "normalize"
    /\ pc = "once"
    /\ z' = normalize_class_name_final(y)
    /\ pc' = "twice"
    /\ UNCHANGED <<mode, x, y, cell, classes, nrows, result_df,
                   result_df_unique, result_df_sorted, final_df>>

NextNormalize == Canonicalize \/ CanonicalizeAgain

SpecNormalize == InitNormalize /\ [][NextNormalize]_vars

----------------------------------------------------------------------------
(* Properties of the three handlers, checked under Spec *)

\* the columns a class's textbook is told apart by
BookOf(r) == <<r.book, r.publisher, r.isbn>>

ClassAndBook(r) == <<r.cls, r.book, r.publisher, r.isbn>>

Positions(df) == 1..Len(df)

ClassesIn(df) == {df[i].cls : i \in Positions(df)}

\* C1: in the output of each of the three handlers the sequence numbers are
\* exactly 1..N for the N distinct class identifiers of the output, and two
\* rows carry the same number if and only if they carry the same identifier.
C1_BijectiveNumbering ==
    pc = "done" =>
        /\ {final_df[i].seq : i \in Positions(final_df)}
              = 1..Cardinality(ClassesIn(final_df))
        /\ \A i, j \in Positions(final_df) :
              (final_df[i].seq = final_df[j].seq) <=> (final_df[i].cls = final_df[j].cls)

\* an output of two classes in which one class has two rows
C1_Witness ==
    /\ pc = "done"
    /\ Cardinality(ClassesIn(final_df)) >= 2
    /\ \E i, j \in Positions(final_df) :
          i # j /\ final_df[i].cls = final_df[j].cls /\ final_df[i].seq = final_df[j].seq

\* C2: no two rows of the output agree on (class, book, publisher, ISBN); in
\* process_excel the class compared is the canonical identifier, so parsed rows
\* whose raw identifiers differ but normalise alike, with the same book, leave
\* exactly one output row.
C2_UniqueClassAndBook ==
    pc = "done" =>
        /\ \A i, j \in Positions(final_df) :
              ClassAndBook(final_df[i]) = ClassAndBook(final_df[j]) => i = j
        /\ mode = "A" =>
              \A i, j \in Positions(result_df) :
                 (/\ normalize_class_name_final(result_df[i].raw)
                        = normalize_class_name_final(result_df[j].raw)
                  /\ BookOf(result_df[i]) = BookOf(result_df[j]))
                 => Cardinality({k \in Positions(final_df) :
                        /\ final_df[k].cls = normalize_class_name_final(result_df[i].raw)
                        /\ BookOf(final_df[k]) = BookOf(result_df[i])}) = 1

\* 24级护1班 and 24护1班 parsed for the same book, and the output written
C2_Witness ==
    /\ mode = "A" /\ pc = "done"
    /\ \E i, j \in Positions(result_df) :
          /\ result_df[i].raw = <<"2", "4", JI, HU, "1", BAN>>
          /\ result_df[j].raw = <<"2", "4", HU, "1", BAN>>
          /\ BookOf(result_df[i]) = BookOf(result_df[j])

\* the digits that end a class identifier, as a number
RECURSIVE TrailingNumber(_, _)
TrailingNumber(cls, k) ==
    IF k < Len(cls) /\ IsDigit(cls[Len(cls) - k]) THEN TrailingNumber(cls, k + 1)
    ELSE IF k = 0 THEN 0
    ELSE IntVal(SubSeq(cls, Len(cls) - k + 1, Len(cls)))

\* the order each handler sorts its classes by
InSortOrder(c1, c2) ==
    CASE mode = "A" ->
            \/ StrLess(SubSeq(c2, 1, 2), SubSeq(c1, 1, 2))
            \/ /\ SubSeq(c1, 1, 2) = SubSeq(c2, 1, 2)
               /\ ~StrLess(From(c2, 2), From(c1, 2))
      [] mode = "B" ->
            IntVal(SelectSeq(c1, IsDigit)) <= IntVal(SelectSeq(c2, IsDigit))
      [] mode = "C" ->
            IntVal(SubSeq(c1, 1, 2)) * 100 + TrailingNumber(c1, 0)
               <= IntVal(SubSeq(c2, 1, 2)) * 100 + TrailingNumber(c2, 0)

\* C4: the sequence numbers follow the sort order of the handler, not the
\* order of encounter: a class with a smaller number comes no later in the
\* order (process_excel: year descending, then the rest ascending;
\* process_winter_homework: the integer of the identifier; process_westlake:
\* year * 100 + the trailing class number).
C4_NumbersFollowSortOrder ==
    pc = "done" =>
        \A i, j \in Positions(final_df) :
           final_df[i].seq < final_df[j].seq => InSortOrder(final_df[i].cls, final_df[j].cls)

\* a year-24 class is met first and a year-25 class gets number 1
C4_Witness ==
    /\ mode = "A" /\ pc = "done"
    /\ SubSeq(result_df[1].cls, 1, 2) = <<"2", "4">>
    /\ \E i \in Positions(final_df) :
          final_df[i].seq = 1 /\ SubSeq(final_df[i].cls, 1, 2) = <<"2", "5">>

\* every row of kept is, in from, the first row of its (class, book) key, and
\* every key of from is kept once
FirstOfEachKey(kept, from) ==
    /\ \A i \in Positions(kept) :
          \E j \in Positions(from) :
             /\ from[j] = kept[i]
             /\ \A k \in 1..(j - 1) : ClassAndBook(from[k]) # ClassAndBook(kept[i])
    /\ \A j \in Positions(from) :
          Cardinality({i \in Positions(kept) :
                          ClassAndBook(kept[i]) = ClassAndBook(from[j])}) = 1

\* C7 as stated: in every handler the rows are deduplicated after they are
\* sorted, so a deduplicated frame exists only once the sorted frame does, and
\* the row kept for a key is the first of that key in the sorted frame.
C7_DedupAfterSort ==
    result_df_unique # NoFrame =>
        /\ result_df_sorted # NoFrame
        /\ FirstOfEachKey(result_df_unique, result_df_sorted)

\* the same rows, each as many times
SameRows(df1, df2) ==
    /\ Len(df1) = Len(df2)
    /\ \A i \in Positions(df1) :
          Cardinality({k \in Positions(df1) : df1[k] = df1[i]})
             = Cardinality({k \in Positions(df2) : df2[k] = df1[i]})

\* C7 amended: process_winter_homework and process_westlake deduplicate the
\* sorted frame and keep the first row of each key in sorted order;
\* process_excel deduplicates before it sorts, keeps the first row of each key
\* in parse order, and sorts the rows kept.
C7_DedupOrderByDialect ==
    /\ (mode \in {"B", "C"} /\ pc \in {"number", "done"}) =>
          FirstOfEachKey(result_df_unique, result_df_sorted)
    /\ (mode = "A" /\ pc \in {"sort", "number", "done"}) =>
          FirstOfEachKey(result_df_unique, result_df)
    /\ (mode = "A" /\ pc \in {"number", "done"}) =>
          SameRows(result_df_sorted, result_df_unique)
    /\ (mode = "A" /\ pc = "sort") => result_df_sorted = NoFrame

\* process_excel has dropped a row whose count differs from the row kept
C7_Witness ==
    /\ mode = "A" /\ pc = "done"
    /\ \E i, j \in Positions(result_df) :
          /\ i < j
          /\ ClassAndBook(result_df[i]) = ClassAndBook(result_df[j])
          /\ result_df[i].cnt # result_df[j].cnt

\* C9 as stated: in the output the rows of one class are contiguous and the
\* sequence numbers never decrease from one row to the next.
C9_ContiguousNonDecreasing ==
    pc = "done" =>
        /\ \A i \in 1..(Len(final_df) - 1) : final_df[i].seq <= final_df[i + 1].seq
        /\ \A i, j, k \in Positions(final_df) :
              (i < j /\ j < k /\ final_df[i].cls = final_df[k].cls)
                 => final_df[j].cls = final_df[i].cls

----------------------------------------------------------------------------
(* Properties of normalize_class_name_final, checked under SpecNormalize *)

\* C3 as stated: normalize_class_name_final is idempotent: for every string
\* x, normalising the normalised identifier changes nothing.
C3_Idempotent == pc = "twice" => z = y

\* the remainder after the year, without one leading 级
RemainderOf(s) ==
    IF Len(s) > 2 /\ s[3] = JI THEN SubSeq(s, 4, Len(s)) ELSE SubSeq(s, 3, Len(s))

\* C6 as stated: for a raw identifier with no bracket that contains 级 and
\* starts with 24 or 25, the canonical identifier is the two-character year
\* followed by the remainder with at most one leading 级 removed and every
\* other character kept; a raw identifier with no bracket and no 级 is
\* returned unchanged.
C6_YearPlusRemainder ==
    (pc = "once" /\ ~Contains(x, RP) /\ ~Contains(x, LP)) =>
        IF Contains(x, JI)
              /\ Len(x) >= 2 /\ x[1] = "2" /\ x[2] \in {"4", "5"}
        THEN y = SubSeq(x, 1, 2) \o RemainderOf(x)
        ELSE Contains(x, JI) \/ y = x

----------------------------------------------------------------------------
(* Properties of the three parsers, checked under SpecParse *)

\* the mentions of a cell: its pieces between the 、
RECURSIVE MentionsOf(_, _)
MentionsOf(s, from) ==
    IF \E k \in from..Len(s) : s[k] = DUN
    THEN <<SubSeq(s, from, Min({k \in from..Len(s) : s[k] = DUN}) - 1)>>
            \o MentionsOf(s, Min({k \in from..Len(s) : s[k] = DUN}) + 1)
    ELSE <<SubSeq(s, from, Len(s))>>

\* the class text of a mention: what is before its （
ClassTextOf(m) == SubSeq(m, 1, Min({k \in 1..Len(m) : m[k] = LP}) - 1)

\* the count of a mention: the digits between its brackets
HeadCountOf(m) == IntVal(SelectSeq(SubSeq(m, Min({k \in 1..Len(m) : m[k] = LP}), Len(m)),
                                   IsDigit))

\* C5 as stated: for a cell of k well-formed mentions separated by 、,
\* parse_class_info returns exactly k entries, one per mention in order, each
\* the class text and the count of its mention, no class text holding a bracket.
C5_OneEntryPerMention ==
    (mode = "parse_class_info" /\ pc = "returned") =>
        /\ Len(classes) = Len(MentionsOf(cell, 1))
        /\ \A i \in 1..Len(classes) :
              /\ i <= Len(MentionsOf(cell, 1))
              /\ classes[i].name = ClassTextOf(MentionsOf(cell, 1)[i])
              /\ classes[i].cnt = <<HeadCountOf(MentionsOf(cell, 1)[i])>>
              /\ ~Contains(classes[i].name, LP) /\ ~Contains(classes[i].name, RP)

====
